---- MODULE Spec2Model ----
(***************************************************************************)
(* A model of tunnel-go: the tunnel Manager (pkg/tunnel), the value        *)
(* resolver (pkg/config), the AWS client wrapper (pkg/aws) and the         *)
(* create-tunnel command of main.go.                                       *)
(*                                                                         *)
(* Go strings are sequences of characters (<<>> is ""), so that            *)
(* strings.ReplaceAll is computed and not assumed.  A Go error is a chain  *)
(* of <<message, argument>> frames, outermost first; <<>> is nil.          *)
(***************************************************************************)
EXTENDS Integers, Sequences, FiniteSets, TLC

(***************************************************************************)
(* Bounds of the model.                                                    *)
(***************************************************************************)
NumInst == 2        \* tool instances running at the same time (SpecMain)
MaxServices == 2    \* length of a -services list
MaxProcs == 2       \* forwarding processes one API-driven Manager may start

Inst == 1..NumInst

Nil == <<>>
NoInstance == "nil"

(***************************************************************************)
(* Errors.                                                                 *)
(***************************************************************************)
\* fmt.Errorf("msg %s: %w", arg, err) and fmt.Errorf("msg") with err = Nil
Errorf(msg, arg, err) == <<<<msg, arg>>>> \o err

\* errors.Unwrap chain: inner is e or is wrapped somewhere inside e
RECURSIVE Wraps(_, _)
Wraps(e, inner) ==
  IF e = inner THEN TRUE
  ELSE IF e = Nil THEN FALSE
  ELSE Wraps(Tail(e), inner)

(***************************************************************************)
(* Strings.                                                                *)
(***************************************************************************)
PLACEHOLDER == <<"$", "{P}">>

HasPrefix(s, pre) ==
  /\ Len(pre) <= Len(s)
  /\ SubSeq(s, 1, Len(pre)) = pre

\* a variant that replaces the first occurrence only
RECURSIVE ReplaceAll_First(_, _, _)
ReplaceAll_First(s, old, new) ==
  IF s = <<>> THEN <<>>
  ELSE IF HasPrefix(s, old)
       THEN new \o SubSeq(s, Len(old) + 1, Len(s))
       ELSE <<Head(s)>> \o ReplaceAll_First(Tail(s), old, new)

\* strings.ReplaceAll(s, old, new) for a non-empty old: leftmost
\* non-overlapping occurrences, left to right
RECURSIVE ReplaceAll(_, _, _)
ReplaceAll(s, old, new) ==
  IF s = <<>> THEN <<>>
  ELSE IF HasPrefix(s, old)
       THEN new \o ReplaceAll(SubSeq(s, Len(old) + 1, Len(s)), old, new)
       ELSE <<Head(s)>> \o ReplaceAll(Tail(s), old, new)

\* strings.Split(name, "/") followed by parts[len(parts)-1]
RECURSIVE LastSegment(_)
LastSegment(s) ==
  IF \E k \in 1..Len(s) : s[k] = "/"
  THEN LastSegment(Tail(s))
  ELSE s

(***************************************************************************)
(* The configuration file and the environment of the run.                  *)
(***************************************************************************)
Env == <<"d">>

HostPathB == <<"/", "$", "{P}", "/", "B", "/", "host">>
PortPathA == <<"/", "$", "{P}", "/", "A", "/", "port">>
UserPathB == <<"/", "$", "{P}", "/", "B", "/", "user">>
PortPathB == <<"/", "$", "{P}", "/", "B", "/", "port">>
\* more service-details paths: one that ends in "host" as HostPathB does,
\* one whose parameter comes without a value, one that ends in the key of
\* the port range
AltHostPath == <<"/", "$", "{P}", "/", "C", "/", "host">>
NotePathB == <<"/", "$", "{P}", "/", "B", "/", "note">>
RangePathB == <<"/", "$", "{P}", "/", "B", "/", "local_port_range">>

\* Config.TunnelConfig.Services
Services ==
  [A |-> [Host |-> [Value |-> <<"hA">>, SSMParam |-> <<>>],
          RemotePort |-> [Value |-> <<>>, SSMParam |-> PortPathA],
          LocalPortRange |-> [Start |-> 5000, End |-> 5001],
          ServiceDetails |-> <<>>],
   B |-> [Host |-> [Value |-> <<>>, SSMParam |-> HostPathB],
          RemotePort |-> [Value |-> <<>>, SSMParam |-> PortPathB],
          LocalPortRange |-> [Start |-> 5001, End |-> 5002],
          ServiceDetails |-> <<HostPathB, UserPathB, AltHostPath, NotePathB,
                               RangePathB>>]]

JumphostFilter == <<"$", "{P}", "-", "j">>

\* names a caller may ask for: the configured ones and one that is absent
Names == {"A", "B", "X"}

\* Config.GetJumphostFilter
GetJumphostFilter(env) == ReplaceAll(JumphostFilter, PLACEHOLDER, env)

\* Config.GetServiceConfig
GetServiceConfig(serviceName) ==
  IF serviceName \in DOMAIN Services
  THEN [cfg |-> Services[serviceName], err |-> Nil]
  ELSE [cfg |-> <<>>, err |-> Errorf("unknown service", serviceName, Nil)]

(***************************************************************************)
(* The parameter store (SSM) behind the client.                            *)
(***************************************************************************)
\* the Value of a parameter that has none (a nil *string)
NoValue == <<"nil">>

\* parameters that exist in the store, by full name
Store ==
  (<<"/", "d", "/", "B", "/", "host">> :> <<"hB">>) @@
  (<<"/", "d", "/", "A", "/", "port">> :> <<"3306">>) @@
  (<<"/", "d", "/", "B", "/", "user">> :> <<"uB">>) @@
  (<<"/", "d", "/", "B", "/", "port">> :> <<"5432">>) @@
  (<<"/", "d", "/", "C", "/", "host">> :> <<"hC">>) @@
  (<<"/", "d", "/", "B", "/", "note">> :> NoValue) @@
  (<<"/", "d", "/", "B", "/", "local_port_range">> :> <<"r">>) @@
  (<<"/", "p", "/", "B", "/", "host">> :> <<"hBp">>) @@
  (<<"/", "d", "/", "B", "/", "d">> :> <<"hBd">>)

\* a variant that drops the error of the store and returns ""
GetParameter_ErrorSwallowed(name, up) ==
  IF ~up \/ name \notin DOMAIN Store
  THEN [val |-> <<>>, err |-> Nil]
  ELSE [val |-> Store[name], err |-> Nil]

\* Client.GetParameterValue / Client.GetParameter: up is whether the
\* store answers this call
GetParameter(name, up) ==
  IF ~up \/ name \notin DOMAIN Store
  THEN [val |-> <<>>, err |-> Errorf("failed to get parameter", name, <<<<"ssm", "">>>>)]
  ELSE IF Store[name] = NoValue
  THEN [val |-> <<>>, err |-> Errorf("parameter has no value", name, Nil)]
  ELSE [val |-> Store[name], err |-> Nil]

\* a variant without the check for both sources: the reference wins
GetValue_ParamWins(cv, up, placeholder) ==
  IF cv.SSMParam # <<>>
  THEN LET paramPath == ReplaceAll(cv.SSMParam, PLACEHOLDER, placeholder)
           r == GetParameter(paramPath, up)
       IN [val |-> r.val, calls |-> <<paramPath>>, err |-> r.err]
  ELSE IF cv.Value # <<>>
  THEN [val |-> cv.Value, calls |-> <<>>, err |-> Nil]
  ELSE [val |-> <<>>, calls |-> <<>>,
        err |-> Errorf("no value or SSM parameter specified", "", Nil)]

\* a variant that resolves a ConfigValue without source to "" and no error
GetValue_EmptyDefault(cv, up, placeholder) ==
  IF cv.SSMParam # <<>> /\ cv.Value # <<>>
  THEN [val |-> <<>>, calls |-> <<>>,
        err |-> Errorf("cannot specify both value and SSM parameter", "", Nil)]
  ELSE IF cv.SSMParam # <<>>
  THEN LET paramPath == ReplaceAll(cv.SSMParam, PLACEHOLDER, placeholder)
           r == GetParameter(paramPath, up)
       IN [val |-> r.val, calls |-> <<paramPath>>, err |-> r.err]
  ELSE [val |-> cv.Value, calls |-> <<>>, err |-> Nil]

\* a variant that replaces the placeholder in the inline literal too
GetValue_LiteralExpanded(cv, up, placeholder) ==
  IF cv.SSMParam # <<>> /\ cv.Value # <<>>
  THEN [val |-> <<>>, calls |-> <<>>,
        err |-> Errorf("cannot specify both value and SSM parameter", "", Nil)]
  ELSE IF cv.SSMParam # <<>>
  THEN LET paramPath == ReplaceAll(cv.SSMParam, PLACEHOLDER, placeholder)
           r == GetParameter(paramPath, up)
       IN [val |-> r.val, calls |-> <<paramPath>>, err |-> r.err]
  ELSE IF cv.Value # <<>>
  THEN [val |-> ReplaceAll(cv.Value, PLACEHOLDER, placeholder),
        calls |-> <<>>, err |-> Nil]
  ELSE [val |-> <<>>, calls |-> <<>>,
        err |-> Errorf("no value or SSM parameter specified", "", Nil)]

\* ConfigValue.GetValue; calls is the sequence of names sent to the store
GetValue(cv, up, placeholder) ==
  IF cv.SSMParam # <<>> /\ cv.Value # <<>>
  THEN [val |-> <<>>, calls |-> <<>>,
        err |-> Errorf("cannot specify both value and SSM parameter", "", Nil)]
  ELSE IF cv.SSMParam # <<>>
  THEN LET paramPath == ReplaceAll(cv.SSMParam, PLACEHOLDER, placeholder)
           r == GetParameter(paramPath, up)
       IN [val |-> r.val, calls |-> <<paramPath>>, err |-> r.err]
  ELSE IF cv.Value # <<>>
  THEN [val |-> cv.Value, calls |-> <<>>, err |-> Nil]
  ELSE [val |-> <<>>, calls |-> <<>>,
        err |-> Errorf("no value or SSM parameter specified", "", Nil)]

(***************************************************************************)
(* Client.GetParametersByPath.                                             *)
(***************************************************************************)
batchSize == 10

Min(a, b) == IF a < b THEN a ELSE b

\* ssm GetParameters on one batch: the parameters that exist, in the order
\* of the names asked for
RECURSIVE GetParameters(_)
GetParameters(batch) ==
  IF batch = <<>> THEN <<>>
  ELSE (IF Head(batch) \in DOMAIN Store
        THEN <<[Name |-> Head(batch), Value |-> Store[Head(batch)]]>>
        ELSE <<>>) \o GetParameters(Tail(batch))

\* a variant whose next batch starts at the last name of the one before
RECURSIVE BatchLoop_Overlap(_, _, _, _, _)
BatchLoop_Overlap(paths, i, failAt, parameters, calls) ==
  IF i >= Len(paths)
  THEN [params |-> parameters, calls |-> calls, err |-> Nil]
  ELSE LET end == Min(i + batchSize, Len(paths))
           batch == SubSeq(paths, i + 1, end)
       IN IF Len(calls) + 1 = failAt
          THEN [params |-> <<>>, calls |-> Append(calls, batch),
                err |-> Errorf("failed to get parameters", "", <<<<"ssm", "">>>>)]
          ELSE BatchLoop_Overlap(paths, i + batchSize - 1, failAt,
                                 parameters \o GetParameters(batch),
                                 Append(calls, batch))

\* the loop of GetParametersByPath from offset i (0-based); failAt is the
\* number of the underlying call that fails, 0 when none does
RECURSIVE BatchLoop(_, _, _, _, _)
BatchLoop(paths, i, failAt, parameters, calls) ==
  IF i >= Len(paths)
  THEN [params |-> parameters, calls |-> calls, err |-> Nil]
  ELSE LET end == Min(i + batchSize, Len(paths))
           batch == SubSeq(paths, i + 1, end)
       IN IF Len(calls) + 1 = failAt
          THEN [params |-> <<>>, calls |-> Append(calls, batch),
                err |-> Errorf("failed to get parameters", "", <<<<"ssm", "">>>>)]
          ELSE BatchLoop(paths, i + batchSize, failAt,
                         parameters \o GetParameters(batch), Append(calls, batch))

GetParametersByPath(paths, failAt) ==
  LET r == BatchLoop(paths, 0, failAt, <<>>, <<>>)
  IN IF r.err # Nil THEN r
     ELSE IF Len(r.params) = 0
     THEN [params |-> <<>>, calls |-> r.calls,
           err |-> Errorf("no parameters found", "", Nil)]
     ELSE r

(***************************************************************************)
(* Client.GetJumphost.                                                     *)
(***************************************************************************)
\* what DescribeInstances may answer: a failure, or reservations of
\* instances with their state
EC2Outputs ==
  { [err |-> TRUE, Reservations |-> <<>>],
    [err |-> FALSE, Reservations |-> <<>>],
    [err |-> FALSE, Reservations |->
       << <<[InstanceId |-> "i-1", State |-> "stopped"]>> >>],
    [err |-> FALSE, Reservations |->
       << <<[InstanceId |-> "i-1", State |-> "running"]>>,
          <<[InstanceId |-> "i-2", State |-> "running"]>> >>] }

\* a variant that collects the instances whatever their state
RECURSIVE CollectInstances_AnyState(_)
CollectInstances_AnyState(reservations) ==
  IF reservations = <<>> THEN <<>>
  ELSE Head(reservations) \o CollectInstances_AnyState(Tail(reservations))

\* the nested loops that collect the running instances
RECURSIVE CollectInstances(_)
CollectInstances(reservations) ==
  IF reservations = <<>> THEN <<>>
  ELSE SelectSeq(Head(reservations), LAMBDA inst : inst.State = "running")
         \o CollectInstances(Tail(reservations))

\* rnd is the value of rand.Intn(len(instances))
ClientGetJumphost(env, filter, out, rnd) ==
  IF out.err
  THEN [inst |-> NoInstance,
        err |-> Errorf("failed to describe instances", "", <<<<"ec2", "">>>>)]
  ELSE LET instances == CollectInstances(out.Reservations)
       IN IF Len(instances) = 0
          THEN [inst |-> NoInstance,
                err |-> Errorf("no running instances found matching filter",
                               ReplaceAll(filter, PLACEHOLDER, env), Nil)]
          ELSE [inst |-> instances[rnd + 1].InstanceId,
                err |-> Nil]

\* a variant in which the first instance is always taken
RndChoices_Zero(out) == {0}

\* the values rand.Intn(len(instances)) can give
RndChoices(out) ==
  IF out.err \/ Len(CollectInstances(out.Reservations)) = 0
  THEN {0}
  ELSE 0..(Len(CollectInstances(out.Reservations)) - 1)

(***************************************************************************)
(* State.                                                                  *)
(***************************************************************************)
VARIABLES
  mainPc,      \* per instance: "lib" (a Manager driven through its API),
               \* "off", or the position of main's create-tunnel command
  args,        \* per instance: the -services list of its command line
  pc,          \* per instance: position inside the Manager call in progress
  services,    \* argument of the CreateTunnels call in progress
  idx,         \* index of the service the range loop is at
  lastError,   \* CreateTunnels' lastError, CleanupTunnels' lastErr
  ret,         \* error returned by the last finished call
  jumphost,    \* Manager.jumphost (instance id or NoInstance)
  tunnels,     \* Manager.tunnels: service name -> process
  procs,       \* every forwarding process ever started, in start order
  attempts,    \* history of the call: service names the loop took up
  svcErr,      \* history of the call: the error of each service, in order
  ec2Log,      \* history of the call: results of the DescribeInstances calls
  ssmLog,      \* history of the call: names sent to the parameter store
  portScans,   \* history of the call: number of findAvailablePort calls
  launched,    \* history of the call: processes started
  tunnels0,    \* the registry when the call began
  clVisited,   \* CleanupTunnels: keys Range passed to the callback, each
               \* of which got a Kill
  details,     \* result of the last GetServiceDetails: the map, or <<>>
  detailsArg,  \* the service it was asked for
  batchLog,    \* its batched fetch: the batches sent, and the error it got
  iters,       \* history of the call: what each iteration of the loop did
  gvArg,       \* GetValue called on its own: the ConfigValue and placeholder
  gvLog,       \* the results of the successive resolutions of gvArg
  fapArg,      \* findAvailablePort called on its own: start, end, busy ports
  fapRet,      \* what it returned
  gjArg,       \* Client.GetJumphost called on its own: env and the answer
               \* of DescribeInstances
  gjRet,       \* what it returned
  gpArg,       \* Client.GetParametersByPath called on its own: the paths
               \* and the number of the underlying call that fails
  gpRet,       \* what it returned, with the batches it sent
  clPc,        \* per Manager: position of a CleanupTunnels that runs in a
               \* goroutine of its own, beside a CreateTunnels
  clErr,       \* its lastErr
  clTunnels0,  \* the registry when its Range began
  clPids,      \* the processes its callback was called with, in order
  printed      \* per instance: the services main service-details printed

\* the variables of the Managers and of main
managerVars == <<mainPc, args, pc, services, idx, lastError, ret, jumphost,
                 tunnels, procs, attempts, svcErr, ec2Log, ssmLog, portScans,
                 launched, tunnels0, clVisited, details, detailsArg, batchLog,
                 iters>>

\* the variables of the calls of single functions
pureVars == <<gvArg, gvLog, fapArg, fapRet, gjArg, gjRet, gpArg, gpRet>>

\* the variables of the cleanup goroutine
signalVars == <<clPc, clErr, clTunnels0, clPids>>

vars == <<mainPc, args, pc, services, idx, lastError, ret, jumphost, tunnels,
          procs, attempts, svcErr, ec2Log, ssmLog, portScans, launched,
          tunnels0, clVisited, details, detailsArg, batchLog, iters,
          gvArg, gvLog, fapArg, fapRet, gjArg, gjRet, gpArg, gpRet,
          clPc, clErr, clTunnels0, clPids, printed>>

(***************************************************************************)
(* Local ports and the port allocator.                                     *)
(***************************************************************************)
\* ports held by forwarding processes that are alive and have bound their
\* local port
BoundPorts ==
  {procs[p].localPort : p \in {q \in DOMAIN procs :
                                 procs[q].alive /\ procs[q].bound}}

\* isPortAvailable: net.Listen succeeds, and the listener is closed at once;
\* busy is the set of ports some listener holds at that moment
isPortAvailable(port, busy) == port \notin busy

\* a variant that scans from the end of the range downwards
RECURSIVE findAvailablePort_FromEnd(_, _, _)
findAvailablePort_FromEnd(start, end, busy) ==
  IF start > end
  THEN [port |-> 0, err |-> Errorf("no available ports in range", "", Nil)]
  ELSE IF isPortAvailable(end, busy)
  THEN [port |-> end, err |-> Nil]
  ELSE findAvailablePort_FromEnd(start, end - 1, busy)

\* a variant whose loop stops before the last port of the range
RECURSIVE findAvailablePort_Exclusive(_, _, _)
findAvailablePort_Exclusive(start, end, busy) ==
  IF start >= end
  THEN [port |-> 0, err |-> Errorf("no available ports in range", "", Nil)]
  ELSE IF isPortAvailable(start, busy)
  THEN [port |-> start, err |-> Nil]
  ELSE findAvailablePort_Exclusive(start + 1, end, busy)

RECURSIVE findAvailablePort(_, _, _)
findAvailablePort(start, end, busy) ==
  IF start > end
  THEN [port |-> 0, err |-> Errorf("no available ports in range", "", Nil)]
  ELSE IF isPortAvailable(start, busy)
  THEN [port |-> start, err |-> Nil]
  ELSE findAvailablePort(start + 1, end, busy)

(***************************************************************************)
(* Pure parts of the Manager.                                              *)
(***************************************************************************)
Set(f, i, v) == [f EXCEPT ![i] = v]

\* a Go map assignment m[k] = v, and sync.Map.Store(k, v)
Put(m, k, v) == [x \in DOMAIN m \cup {k} |-> IF x = k THEN v ELSE m[x]]

\* Manager.GetJumphost
ManagerGetJumphost(out, rnd) ==
  ClientGetJumphost(Env, GetJumphostFilter(Env), out, rnd)

JumphostFailed_Ignored(err) == FALSE

\* CreateTunnels: "if err != nil" after GetJumphost
JumphostFailed(err) == err # Nil

NeedJumphost_Always(jh) == TRUE

\* CreateTunnel: "if m.jumphost == nil"
NeedJumphost(jh) == jh = NoInstance

\* Manager.CreateTunnel as a function of the Manager's jumphost and of what
\* the outside answers: busy (ports held at the scan), upH and upP (the
\* store answers the host, the remote-port fetch), out and rnd (of
\* GetJumphost), started (cmd.Start succeeds).  cmd is the command to
\* start, when it gets that far; ssm, ec2 and scans are the calls made.
CreateTunnel(serviceName, serviceConfig, jh, busy, upH, upP, out, rnd, started) ==
  LET h == GetValue(serviceConfig.Host, upH, Env)
      rp == GetValue(serviceConfig.RemotePort, upP, Env)
      j == ManagerGetJumphost(out, rnd)
      jh2 == IF NeedJumphost(jh) THEN j.inst ELSE jh
      asked == IF NeedJumphost(jh) THEN <<j.inst>> ELSE <<>>
      f == findAvailablePort(serviceConfig.LocalPortRange.Start,
                             serviceConfig.LocalPortRange.End, busy)
      cmd == [svc |-> serviceName, target |-> jh2, host |-> h.val,
              remotePort |-> rp.val, localPort |-> f.port]
      fail(e, ssm, ec2, scans, jhost) ==
        [err |-> e, started |-> FALSE, cmd |-> cmd, jumphost |-> jhost,
         ssm |-> ssm, ec2 |-> ec2, scans |-> scans]
  IN IF h.err # Nil
     THEN fail(Errorf("failed to get host for", serviceName, h.err),
               h.calls, <<>>, 0, jh)
     ELSE IF rp.err # Nil
     THEN fail(Errorf("failed to get remote port for", serviceName, rp.err),
               h.calls \o rp.calls, <<>>, 0, jh)
     ELSE IF NeedJumphost(jh) /\ j.err # Nil
     THEN fail(Errorf("failed to find jumphost instance", "", j.err),
               h.calls \o rp.calls, asked, 0, jh)
     ELSE IF f.err # Nil
     THEN fail(Errorf("failed to find available port for", serviceName, f.err),
               h.calls \o rp.calls, asked, 1, jh2)
     ELSE IF ~started
     THEN fail(Errorf("failed to start AWS CLI command", "", <<<<"exec", "">>>>),
               h.calls \o rp.calls, asked, 1, jh2)
     ELSE [err |-> Nil, started |-> TRUE, cmd |-> cmd, jumphost |-> jh2,
           ssm |-> h.calls \o rp.calls, ec2 |-> asked, scans |-> 1]

NextLastError_FirstWins(last, err) == IF last # Nil THEN last ELSE err

\* CreateTunnels: lastError = err in the two failure branches of the loop
NextLastError(last, err) == IF err # Nil THEN err ELSE last

LoopDone_AbortOnError(k, n, err) == k >= n \/ err # Nil

\* CreateTunnels: both failure branches end in "continue"; the loop stops
\* only after the last name (k is the position, n the length of the list)
LoopDone(k, n, err) == k >= n

\* CreateTunnels: the value returned after the loop
BatchResult(last) ==
  IF last # Nil
  THEN Errorf("one or more tunnels failed to create", "", last)
  ELSE Nil

StoreTunnel_Dropped(t, serviceName, cmd) == t

\* a variant that forgets the sessions stored before
StoreTunnel_Replace(t, serviceName, cmd) == Put(<<>>, serviceName, cmd)

\* CreateTunnel: m.tunnels.Store(serviceName, cmd)
StoreTunnel(t, serviceName, cmd) == Put(t, serviceName, cmd)

\* CleanupTunnels: what the Range callback returns
RangeContinue(err) == err = Nil

\* GetServiceDetails: the loop that adds the fetched parameters
\* a variant that keeps the value a key already has
RECURSIVE MergeParameters_KeepFirst(_, _)
MergeParameters_KeepFirst(d, parameters) ==
  IF parameters = <<>> THEN d
  ELSE IF Head(parameters).Name = NoValue \/ Head(parameters).Value = NoValue
  THEN MergeParameters_KeepFirst(d, Tail(parameters))
  ELSE IF LastSegment(Head(parameters).Name) \in DOMAIN d
  THEN MergeParameters_KeepFirst(d, Tail(parameters))
  ELSE MergeParameters_KeepFirst(Put(d, LastSegment(Head(parameters).Name),
                                     Head(parameters).Value),
                                 Tail(parameters))

RECURSIVE MergeParameters(_, _)
MergeParameters(d, parameters) ==
  IF parameters = <<>> THEN d
  ELSE IF Head(parameters).Name = NoValue \/ Head(parameters).Value = NoValue
  THEN MergeParameters(d, Tail(parameters))
  ELSE MergeParameters(Put(d, LastSegment(Head(parameters).Name),
                           Head(parameters).Value),
                       Tail(parameters))

RECURSIVE ReplaceInAll(_, _)
ReplaceInAll(paths, env) ==
  IF paths = <<>> THEN <<>>
  ELSE <<ReplaceAll(Head(paths), PLACEHOLDER, env)>> \o ReplaceInAll(Tail(paths), env)

\* a variant that prints the end before the start
FormatRange_EndFirst(r) == <<ToString(r.End), "-", ToString(r.Start)>>

\* fmt.Sprintf("%d-%d", LocalPortRange.Start, LocalPortRange.End)
FormatRange(r) == <<ToString(r.Start), "-", ToString(r.End)>>

NoFetch == [calls |-> <<>>, err |-> Nil, params |-> <<>>]

\* Manager.GetServiceDetails; a nil map is <<>>
\* a variant that issues the batched fetch before it looks at the error of
\* the remote-port resolution
ManagerGetServiceDetails_FetchFirst(serviceConfig, upH, upP, failAt) ==
  LET h == GetValue(serviceConfig.Host, upH, Env)
      rp == GetValue(serviceConfig.RemotePort, upP, Env)
      d1 == Put(<<>>, <<"host">>, h.val)
      d2 == Put(d1, <<"remote_port">>, rp.val)
      paramPaths == ReplaceInAll(serviceConfig.ServiceDetails, Env)
      g == GetParametersByPath(paramPaths, failAt)
      range == FormatRange(serviceConfig.LocalPortRange)
  IN IF h.err # Nil
     THEN [details |-> <<>>, err |-> Errorf("failed to get host", "", h.err),
           ssm |-> h.calls, fetch |-> NoFetch]
     ELSE IF rp.err # Nil
     THEN [details |-> <<>>, err |-> Errorf("failed to get remote port", "", rp.err),
           ssm |-> h.calls \o rp.calls,
           fetch |-> IF Len(serviceConfig.ServiceDetails) > 0
                     THEN [calls |-> g.calls, err |-> g.err, params |-> <<>>]
                     ELSE NoFetch]
     ELSE IF Len(serviceConfig.ServiceDetails) > 0
     THEN IF g.err # Nil
          THEN [details |-> d2, err |-> Nil,
                ssm |-> h.calls \o rp.calls,
                fetch |-> [calls |-> g.calls, err |-> g.err, params |-> <<>>]]
          ELSE [details |-> Put(MergeParameters(d2, g.params),
                                <<"local_port_range">>, range),
                err |-> Nil,
                ssm |-> h.calls \o rp.calls,
                fetch |-> [calls |-> g.calls, err |-> Nil, params |-> g.params]]
     ELSE [details |-> Put(d2, <<"local_port_range">>, range), err |-> Nil,
           ssm |-> h.calls \o rp.calls, fetch |-> NoFetch]

ManagerGetServiceDetails(serviceConfig, upH, upP, failAt) ==
  LET h == GetValue(serviceConfig.Host, upH, Env)
      rp == GetValue(serviceConfig.RemotePort, upP, Env)
      d1 == Put(<<>>, <<"host">>, h.val)
      d2 == Put(d1, <<"remote_port">>, rp.val)
      paramPaths == ReplaceInAll(serviceConfig.ServiceDetails, Env)
      g == GetParametersByPath(paramPaths, failAt)
      range == FormatRange(serviceConfig.LocalPortRange)
  IN IF h.err # Nil
     THEN [details |-> <<>>, err |-> Errorf("failed to get host", "", h.err),
           ssm |-> h.calls, fetch |-> NoFetch]
     ELSE IF rp.err # Nil
     THEN [details |-> <<>>, err |-> Errorf("failed to get remote port", "", rp.err),
           ssm |-> h.calls \o rp.calls, fetch |-> NoFetch]
     ELSE IF Len(serviceConfig.ServiceDetails) > 0
     THEN IF g.err # Nil
          THEN [details |-> d2, err |-> Nil,
                ssm |-> h.calls \o rp.calls,
                fetch |-> [calls |-> g.calls, err |-> g.err, params |-> <<>>]]
          ELSE [details |-> Put(MergeParameters(d2, g.params),
                                <<"local_port_range">>, range),
                err |-> Nil,
                ssm |-> h.calls \o rp.calls,
                fetch |-> [calls |-> g.calls, err |-> Nil, params |-> g.params]]
     ELSE [details |-> Put(d2, <<"local_port_range">>, range), err |-> Nil,
           ssm |-> h.calls \o rp.calls, fetch |-> NoFetch]

(***************************************************************************)
(* State machine.                                                          *)
(***************************************************************************)
RECURSIVE SeqsUpTo(_, _)
SeqsUpTo(S, n) ==
  IF n = 0 THEN {<<>>}
  ELSE LET shorter == SeqsUpTo(S, n - 1)
       IN shorter \cup {Append(q, x) : q \in shorter, x \in S}

\* strings.Split of a non-empty -services value: one name at least
ServiceLists == SeqsUpTo(Names, MaxServices) \ {<<>>}

\* the answers of the store that a resolution of cv can meet: it is asked
\* only for a reference-backed value
StoreAnswers(cv) == IF cv.SSMParam # <<>> THEN BOOLEAN ELSE {TRUE}

\* the answers of DescribeInstances that CreateTunnel can meet: it asks
\* only when it has no jumphost
EC2Answers(jh) ==
  IF NeedJumphost(jh) THEN EC2Outputs ELSE {[err |-> TRUE, Reservations |-> <<>>]}

\* the listeners of other programs that can matter to a scan of start..end;
\* they come and go at any time and are no part of the state
OtherListeners(range) == SUBSET ((range.Start..range.End) \ BoundPorts)

Idle(i) == pc[i] = "idle"

InitCommon ==
  /\ pc = [i \in Inst |-> "idle"]
  /\ services = [i \in Inst |-> <<>>]
  /\ idx = [i \in Inst |-> 0]
  /\ lastError = [i \in Inst |-> Nil]
  /\ ret = [i \in Inst |-> Nil]
  /\ jumphost = [i \in Inst |-> NoInstance]
  /\ tunnels = [i \in Inst |-> <<>>]
  /\ procs = <<>>
  /\ attempts = [i \in Inst |-> <<>>]
  /\ svcErr = [i \in Inst |-> <<>>]
  /\ ec2Log = [i \in Inst |-> <<>>]
  /\ ssmLog = [i \in Inst |-> <<>>]
  /\ portScans = [i \in Inst |-> 0]
  /\ launched = [i \in Inst |-> {}]
  /\ tunnels0 = [i \in Inst |-> <<>>]
  /\ clVisited = [i \in Inst |-> {}]
  /\ details = <<>>
  /\ detailsArg = ""
  /\ batchLog = NoFetch
  /\ iters = [i \in Inst |-> <<>>]
  /\ clPc = [i \in Inst |-> "idle"]
  /\ clErr = [i \in Inst |-> Nil]
  /\ clTunnels0 = [i \in Inst |-> <<>>]
  /\ clPids = [i \in Inst |-> <<>>]
  /\ printed = [i \in Inst |-> <<>>]

\* no function is called on its own
NoPureCall ==
  /\ gvArg = <<>>
  /\ gvLog = <<>>
  /\ fapArg = <<>>
  /\ fapRet = <<>>
  /\ gjArg = <<>>
  /\ gjRet = <<>>
  /\ gpArg = <<>>
  /\ gpRet = <<>>

\* NewManager, used through its API by one caller
Init ==
  /\ mainPc = [i \in Inst |-> IF i = 1 THEN "lib" ELSE "off"]
  /\ args = [i \in Inst |-> <<>>]
  /\ InitCommon
  /\ NoPureCall

\* one run of "tunnel-go create-tunnel -services ..."
InitMain ==
  /\ mainPc = [i \in Inst |-> IF i = 1 THEN "start" ELSE "off"]
  /\ args \in [Inst -> ServiceLists \cup {<<>>}]
  /\ \A i \in Inst : args[i] = <<>> <=> mainPc[i] = "off"
  /\ InitCommon
  /\ NoPureCall

\* NumInst runs of "tunnel-go create-tunnel" at the same time on one
\* machine, each asked for one service
InitMulti ==
  /\ mainPc = [i \in Inst |-> "start"]
  /\ args \in [Inst -> {svcs \in ServiceLists : Len(svcs) = 1}]
  /\ InitCommon
  /\ NoPureCall

\* the caller of a finished call takes its result; the next call starts
\* with empty histories
Return(i) ==
  /\ mainPc[i] = "lib"
  /\ pc[i] \in {"ctdone", "cldone", "gsddone"}
  /\ pc' = Set(pc, i, "idle")
  /\ services' = Set(services, i, <<>>)
  /\ idx' = Set(idx, i, 0)
  /\ lastError' = Set(lastError, i, Nil)
  /\ ret' = Set(ret, i, Nil)
  /\ attempts' = Set(attempts, i, <<>>)
  /\ svcErr' = Set(svcErr, i, <<>>)
  /\ ec2Log' = Set(ec2Log, i, <<>>)
  /\ ssmLog' = Set(ssmLog, i, <<>>)
  /\ portScans' = Set(portScans, i, 0)
  /\ launched' = Set(launched, i, {})
  /\ tunnels0' = Set(tunnels0, i, <<>>)
  /\ clVisited' = Set(clVisited, i, {})
  /\ details' = <<>>
  /\ detailsArg' = ""
  /\ batchLog' = NoFetch
  /\ iters' = Set(iters, i, <<>>)
  /\ UNCHANGED <<mainPc, args, jumphost, tunnels, procs>>
  /\ UNCHANGED pureVars
  /\ UNCHANGED signalVars
  /\ UNCHANGED printed

\* CreateTunnels(svcs) up to its loop: GetJumphost, the error return,
\* m.jumphost = instance
BeginCreateTunnels(i, svcs) ==
  /\ services' = Set(services, i, svcs)
  /\ idx' = Set(idx, i, 1)
  /\ tunnels0' = Set(tunnels0, i, tunnels[i])
  /\ \E out \in EC2Outputs : \E rnd \in RndChoices(out) :
       LET j == ManagerGetJumphost(out, rnd)
       IN /\ ec2Log' = Set(ec2Log, i, <<j.inst>>)
          /\ IF JumphostFailed(j.err)
             THEN /\ ret' = Set(ret, i, Errorf("failed to find jumphost instance", "", j.err))
                  /\ pc' = Set(pc, i, "ctdone")
                  /\ UNCHANGED jumphost
             ELSE /\ jumphost' = Set(jumphost, i, j.inst)
                  /\ pc' = Set(pc, i, "service")
                  /\ UNCHANGED ret
  /\ UNCHANGED <<lastError, tunnels, procs, attempts, svcErr, ssmLog, portScans,
                 launched, clVisited, details, detailsArg, batchLog, iters>>
  /\ UNCHANGED pureVars
  /\ UNCHANGED signalVars
  /\ UNCHANGED printed

\* a caller of the package calls CreateTunnels
CallCreateTunnels(i, svcs) ==
  /\ mainPc[i] = "lib"
  /\ Idle(i)
  /\ Len(procs) + Len(svcs) <= MaxProcs
  /\ BeginCreateTunnels(i, svcs)
  /\ UNCHANGED <<mainPc, args>>

\* main, create-tunnel: NewManager, strings.Split, CreateTunnels
MainCreateTunnel(i) ==
  /\ mainPc[i] = "start"
  /\ mainPc' = Set(mainPc, i, "creating")
  /\ BeginCreateTunnels(i, args[i])
  /\ UNCHANGED args

\* the end of one iteration of the loop of CreateTunnels with error err
\* (Nil when the tunnel was created), and the return after the last one
EndIteration(i, err) ==
  LET last == NextLastError(lastError[i], err)
  IN /\ lastError' = Set(lastError, i, last)
     /\ svcErr' = Set(svcErr, i, Append(svcErr[i], err))
     /\ IF LoopDone(idx[i], Len(services[i]), err)
        THEN /\ pc' = Set(pc, i, "ctdone")
             /\ ret' = Set(ret, i, BatchResult(last))
             /\ UNCHANGED idx
        ELSE /\ pc' = Set(pc, i, "service")
             /\ idx' = Set(idx, i, idx[i] + 1)
             /\ UNCHANGED ret

\* one iteration of the loop of CreateTunnels: GetServiceConfig, then
\* CreateTunnel, which starts the process and stores it in m.tunnels
CreateTunnelsService(i) ==
  /\ pc[i] = "service"
  /\ LET serviceName == services[i][idx[i]]
         c == GetServiceConfig(serviceName)
     IN /\ attempts' = Set(attempts, i, Append(attempts[i], serviceName))
        /\ IF c.err # Nil
           THEN /\ EndIteration(i, c.err)
                /\ iters' = Set(iters, i, Append(iters[i],
                               [ssm |-> <<>>, ec2 |-> <<>>, scans |-> 0, pid |-> 0]))
                /\ UNCHANGED <<jumphost, tunnels, procs, ec2Log, ssmLog,
                               portScans, launched>>
           ELSE \E upH \in StoreAnswers(c.cfg.Host) :
                \E upP \in StoreAnswers(c.cfg.RemotePort) :
                \E out \in EC2Answers(jumphost[i]) : \E rnd \in RndChoices(out) :
                \E others \in OtherListeners(c.cfg.LocalPortRange) :
                \E started \in BOOLEAN :
                  LET r == CreateTunnel(serviceName, c.cfg, jumphost[i],
                                        BoundPorts \cup others,
                                        upH, upP, out, rnd, started)
                      pid == Len(procs) + 1
                  IN /\ ssmLog' = Set(ssmLog, i, ssmLog[i] \o r.ssm)
                     /\ ec2Log' = Set(ec2Log, i, ec2Log[i] \o r.ec2)
                     /\ portScans' = Set(portScans, i, portScans[i] + r.scans)
                     /\ jumphost' = Set(jumphost, i, r.jumphost)
                     /\ IF r.started
                        THEN /\ procs' = Append(procs,
                                    r.cmd @@ [owner |-> i, bound |-> FALSE,
                                              alive |-> TRUE])
                             /\ tunnels' = Set(tunnels, i,
                                    StoreTunnel(tunnels[i], serviceName, pid))
                             /\ launched' = Set(launched, i, launched[i] \cup {pid})
                        ELSE UNCHANGED <<procs, tunnels, launched>>
                     /\ iters' = Set(iters, i, Append(iters[i],
                            [ssm |-> r.ssm, ec2 |-> r.ec2, scans |-> r.scans,
                             pid |-> IF r.started THEN pid ELSE 0]))
                     /\ EndIteration(i, r.err)
  /\ UNCHANGED <<mainPc, args, services, tunnels0, clVisited, details,
                 detailsArg, batchLog>>
  /\ UNCHANGED pureVars
  /\ UNCHANGED signalVars
  /\ UNCHANGED printed

\* a caller of the package calls CleanupTunnels; Range over an empty map
\* returns at once
CallCleanupTunnels(i) ==
  /\ mainPc[i] = "lib"
  /\ Idle(i)
  /\ pc' = Set(pc, i, IF DOMAIN tunnels[i] = {} THEN "cldone" ELSE "cleanup")
  /\ tunnels0' = Set(tunnels0, i, tunnels[i])
  /\ UNCHANGED <<mainPc, args, services, idx, lastError, ret, jumphost, tunnels,
                 procs, attempts, svcErr, ec2Log, ssmLog, portScans, launched,
                 clVisited, details, detailsArg, batchLog, iters>>
  /\ UNCHANGED pureVars
  /\ UNCHANGED signalVars
  /\ UNCHANGED printed

\* CleanupTunnels: one call of the Range callback, on an entry Range has not
\* passed yet (sync.Map fixes no order); killed is whether Kill succeeds
CleanupTunnelsRange(i) ==
  /\ pc[i] = "cleanup"
  /\ \E key \in DOMAIN tunnels[i] \ clVisited[i] : \E killed \in BOOLEAN :
       LET cmd == tunnels[i][key]
           err == IF killed THEN Nil
                  ELSE Errorf("failed to kill tunnel process", "", <<<<"os", "">>>>)
           lastErr == IF err # Nil THEN err ELSE lastError[i]
           visited == clVisited[i] \cup {key}
       IN /\ procs' = IF killed
                      THEN [procs EXCEPT ![cmd].alive = FALSE, ![cmd].bound = FALSE]
                      ELSE procs
          /\ clVisited' = Set(clVisited, i, visited)
          /\ lastError' = Set(lastError, i, lastErr)
          /\ IF RangeContinue(err) /\ DOMAIN tunnels[i] \ visited # {}
             THEN UNCHANGED <<pc, ret>>
             ELSE /\ pc' = Set(pc, i, "cldone")
                  /\ ret' = Set(ret, i, lastErr)
  /\ UNCHANGED <<mainPc, args, services, idx, jumphost, tunnels, attempts,
                 svcErr, ec2Log, ssmLog, portScans, launched, tunnels0,
                 details, detailsArg, batchLog, iters>>
  /\ UNCHANGED pureVars
  /\ UNCHANGED signalVars
  /\ UNCHANGED printed

\* a variant that forgets the cached jumphost
GetServiceDetails_DropsJumphost(i, serviceName) ==
  /\ mainPc[i] = "lib"
  /\ Idle(i)
  /\ serviceName \in DOMAIN Services
  /\ \E upH \in StoreAnswers(Services[serviceName].Host) :
     \E upP \in StoreAnswers(Services[serviceName].RemotePort) :
     \E failAt \in 0..1 :
       LET r == ManagerGetServiceDetails(Services[serviceName], upH, upP, failAt)
       IN /\ details' = r.details
          /\ ret' = Set(ret, i, r.err)
          /\ ssmLog' = Set(ssmLog, i, r.ssm)
          /\ batchLog' = r.fetch
  /\ detailsArg' = serviceName
  /\ pc' = Set(pc, i, "gsddone")
  /\ tunnels0' = Set(tunnels0, i, tunnels[i])
  /\ jumphost' = Set(jumphost, i, NoInstance)
  /\ UNCHANGED <<mainPc, args, services, idx, lastError, tunnels,
                 procs, attempts, svcErr, ec2Log, portScans, launched, clVisited,
                 iters>>
  /\ UNCHANGED pureVars
  /\ UNCHANGED signalVars
  /\ UNCHANGED printed

\* a caller calls GetServiceDetails for a configured service (main looks
\* the ServiceConfig up first)
GetServiceDetails(i, serviceName) ==
  /\ mainPc[i] = "lib"
  /\ Idle(i)
  /\ serviceName \in DOMAIN Services
  /\ \E upH \in StoreAnswers(Services[serviceName].Host) :
     \E upP \in StoreAnswers(Services[serviceName].RemotePort) :
     \E failAt \in 0..1 :
       LET r == ManagerGetServiceDetails(Services[serviceName], upH, upP, failAt)
       IN /\ details' = r.details
          /\ ret' = Set(ret, i, r.err)
          /\ ssmLog' = Set(ssmLog, i, r.ssm)
          /\ batchLog' = r.fetch
  /\ detailsArg' = serviceName
  /\ pc' = Set(pc, i, "gsddone")
  /\ tunnels0' = Set(tunnels0, i, tunnels[i])
  /\ UNCHANGED <<mainPc, args, services, idx, lastError, jumphost, tunnels,
                 procs, attempts, svcErr, ec2Log, portScans, launched, clVisited,
                 iters>>
  /\ UNCHANGED pureVars
  /\ UNCHANGED signalVars
  /\ UNCHANGED printed

\* main, create-tunnel: log.Fatalf when CreateTunnels failed, else the
\* "Tunnels created successfully" message and the wait on sigChan
MainAfterCreate(i) ==
  /\ mainPc[i] = "creating"
  /\ pc[i] = "ctdone"
  /\ mainPc' = Set(mainPc, i, IF ret[i] # Nil THEN "fatal" ELSE "waiting")
  /\ UNCHANGED <<args, pc, services, idx, lastError, ret, jumphost, tunnels,
                 procs, attempts, svcErr, ec2Log, ssmLog, portScans, launched,
                 tunnels0, clVisited, details, detailsArg, batchLog, iters>>
  /\ UNCHANGED pureVars
  /\ UNCHANGED signalVars
  /\ UNCHANGED printed

\* main, create-tunnel: the interrupt arrives on sigChan, the case ends and
\* main returns
MainInterrupt(i) ==
  /\ mainPc[i] = "waiting"
  /\ mainPc' = Set(mainPc, i, "exited")
  /\ UNCHANGED <<args, pc, services, idx, lastError, ret, jumphost, tunnels,
                 procs, attempts, svcErr, ec2Log, ssmLog, portScans, launched,
                 tunnels0, clVisited, details, detailsArg, batchLog, iters>>
  /\ UNCHANGED pureVars
  /\ UNCHANGED signalVars
  /\ UNCHANGED printed

\* a started forwarding process binds its local port, some time after
\* cmd.Start returned, at a moment no other listener holds it
ProcBind(p) ==
  /\ procs[p].alive
  /\ ~procs[p].bound
  /\ procs[p].localPort \notin BoundPorts
  /\ procs' = [procs EXCEPT ![p].bound = TRUE]
  /\ UNCHANGED <<mainPc, args, pc, services, idx, lastError, ret, jumphost,
                 tunnels, attempts, svcErr, ec2Log, ssmLog, portScans,
                 launched, tunnels0, clVisited, details, detailsArg, batchLog,
                 iters>>
  /\ UNCHANGED pureVars
  /\ UNCHANGED signalVars
  /\ UNCHANGED printed

Next ==
  \/ \E i \in Inst : \E svcs \in ServiceLists : CallCreateTunnels(i, svcs)
  \/ \E i \in Inst : CreateTunnelsService(i)
  \/ \E i \in Inst : CallCleanupTunnels(i)
  \/ \E i \in Inst : CleanupTunnelsRange(i)
  \/ \E i \in Inst : \E n \in Names : GetServiceDetails(i, n)
  \/ \E i \in Inst : Return(i)
  \/ \E p \in DOMAIN procs : ProcBind(p)

Spec == Init /\ [][Next]_vars

NextMain ==
  \/ \E i \in Inst : MainCreateTunnel(i)
  \/ \E i \in Inst : CreateTunnelsService(i)
  \/ \E i \in Inst : MainAfterCreate(i)
  \/ \E i \in Inst : MainInterrupt(i)
  \/ \E p \in DOMAIN procs : ProcBind(p)

SpecMain == InitMain /\ [][NextMain]_vars

SpecMulti == InitMulti /\ [][NextMain]_vars

(***************************************************************************)
(* CleanupTunnels in a goroutine of its own (a signal handler), beside a   *)
(* CreateTunnels of the same Manager.  The registry is a sync.Map: Store   *)
(* and the steps of Range are atomic; Range passes no key twice, passes    *)
(* every key that is there from its start to its end, and for a key stored *)
(* meanwhile may pass any value the key had since Range began, or may not  *)
(* pass it at all.                                                         *)
(***************************************************************************)
\* the keys Range has passed to the callback
PassedKeys(i) == {procs[clPids[i][n]].svc : n \in DOMAIN clPids[i]}

\* the values key k of the registry had since Range began
ValuesDuring(i, k) ==
  {p \in DOMAIN procs :
     /\ procs[p].owner = i
     /\ procs[p].svc = k
     /\ p <= tunnels[i][k]
     /\ k \in DOMAIN clTunnels0[i] => p >= clTunnels0[i][k]}

\* the goroutine calls CleanupTunnels: m.tunnels.Range begins
GoCleanupTunnels(i) ==
  /\ mainPc[i] = "lib"
  /\ clPc[i] = "idle"
  /\ clPc' = Set(clPc, i, "range")
  /\ clTunnels0' = Set(clTunnels0, i, tunnels[i])
  /\ UNCHANGED <<clErr, clPids>>
  /\ UNCHANGED managerVars
  /\ UNCHANGED pureVars
  /\ UNCHANGED printed

\* one call of the Range callback: Kill, and return false when it failed
GoCleanupRange(i) ==
  /\ clPc[i] = "range"
  /\ \E key \in DOMAIN tunnels[i] \ PassedKeys(i) :
     \E cmd \in ValuesDuring(i, key) : \E killed \in BOOLEAN :
       LET err == IF killed THEN Nil
                  ELSE Errorf("failed to kill tunnel process", "", <<<<"os", "">>>>)
       IN /\ procs' = IF killed
                      THEN [procs EXCEPT ![cmd].alive = FALSE, ![cmd].bound = FALSE]
                      ELSE procs
          /\ clPids' = Set(clPids, i, Append(clPids[i], cmd))
          /\ clErr' = Set(clErr, i, IF err # Nil THEN err ELSE clErr[i])
          /\ clPc' = Set(clPc, i, IF RangeContinue(err) THEN "range" ELSE "done")
  /\ UNCHANGED <<mainPc, args, pc, services, idx, lastError, ret, jumphost,
                 tunnels, attempts, svcErr, ec2Log, ssmLog, portScans,
                 launched, tunnels0, clVisited, details, detailsArg, batchLog,
                 iters, clTunnels0>>
  /\ UNCHANGED pureVars
  /\ UNCHANGED printed

\* Range ends, having passed every key that was there when it began, and
\* CleanupTunnels returns lastErr
GoCleanupReturn(i) ==
  /\ clPc[i] = "range"
  /\ DOMAIN clTunnels0[i] \subseteq PassedKeys(i)
  /\ clPc' = Set(clPc, i, "done")
  /\ UNCHANGED <<clErr, clTunnels0, clPids>>
  /\ UNCHANGED managerVars
  /\ UNCHANGED pureVars
  /\ UNCHANGED printed

NextSignal ==
  \/ \E i \in Inst : \E svcs \in ServiceLists : CallCreateTunnels(i, svcs)
  \/ \E i \in Inst : CreateTunnelsService(i)
  \/ \E i \in Inst : GoCleanupTunnels(i)
  \/ \E i \in Inst : GoCleanupRange(i)
  \/ \E i \in Inst : GoCleanupReturn(i)
  \/ \E p \in DOMAIN procs : ProcBind(p)

SpecSignal == Init /\ [][NextSignal]_vars

(***************************************************************************)
(* Single functions called on their own, as the unit tests call them.      *)
(***************************************************************************)
MaxResolutions == 2    \* resolutions of one ConfigValue in a row
MaxPorts == 3          \* ports a scanned range is drawn from

\* no Manager and no main is running
NoManager ==
  /\ mainPc = [i \in Inst |-> "off"]
  /\ args = [i \in Inst |-> <<>>]
  /\ InitCommon

\* inline literals: none, a plain one, one that contains the placeholder
ValueChoices == {<<>>, <<"v">>, <<"$", "{P}", "v">>}

\* reference paths: none, one without placeholder, with one, with two, and
\* one where halves of the placeholder stand around a whole one
ParamChoices ==
  {<<>>,
   <<"/", "d", "/", "B", "/", "host">>,
   HostPathB,
   <<"/", "$", "{P}", "/", "B", "/", "$", "{P}">>,
   <<"$", "$", "{P}", "{P}">>}

\* environment strings: empty, two plain ones, the placeholder itself
EnvChoices == {<<>>, <<"d">>, <<"p">>, PLACEHOLDER}

InitValue ==
  /\ NoManager
  /\ gvArg \in [cv : [Value : ValueChoices, SSMParam : ParamChoices],
                placeholder : EnvChoices]
  /\ gvLog = <<>>
  /\ fapArg = <<>>
  /\ fapRet = <<>>
  /\ gjArg = <<>>
  /\ gjRet = <<>>
  /\ gpArg = <<>>
  /\ gpRet = <<>>

\* cv.GetValue(ssmClient, placeholder); up is whether the store answers
CallGetValue(up) ==
  /\ Len(gvLog) < MaxResolutions
  /\ gvLog' = Append(gvLog,
                [up |-> up, r |-> GetValue(gvArg.cv, up, gvArg.placeholder)])
  /\ UNCHANGED <<gvArg, fapArg, fapRet, gjArg, gjRet, gpArg, gpRet>>
  /\ UNCHANGED managerVars
  /\ UNCHANGED signalVars
  /\ UNCHANGED printed

NextValue == \E up \in BOOLEAN : CallGetValue(up)

SpecValue == InitValue /\ [][NextValue]_vars

PortChoices == 5000..(5000 + MaxPorts - 1)

\* a range (start > end included) and the ports held by listeners, and a
\* new Manager whose services get that range
InitPorts ==
  /\ mainPc = [i \in Inst |-> IF i = 1 THEN "lib" ELSE "off"]
  /\ args = [i \in Inst |-> <<>>]
  /\ InitCommon
  /\ fapArg \in [start : PortChoices, end : PortChoices,
                 busy : SUBSET PortChoices]
  /\ fapRet = <<>>
  /\ gvArg = <<>>
  /\ gvLog = <<>>
  /\ gjArg = <<>>
  /\ gjRet = <<>>
  /\ gpArg = <<>>
  /\ gpRet = <<>>

\* findAvailablePort(start, end)
CallFindAvailablePort ==
  /\ Len(fapRet) = 0
  /\ fapRet' = <<findAvailablePort(fapArg.start, fapArg.end, fapArg.busy)>>
  /\ UNCHANGED <<gvArg, gvLog, fapArg, gjArg, gjRet, gpArg, gpRet>>
  /\ UNCHANGED managerVars
  /\ UNCHANGED signalVars
  /\ UNCHANGED printed

\* a caller calls CreateTunnel itself, on a new Manager, for a service
\* whose LocalPortRange is the drawn range
CallCreateTunnel(i, serviceName) ==
  /\ mainPc[i] = "lib"
  /\ Idle(i)
  /\ procs = <<>>
  /\ LET serviceConfig ==
           [Services[serviceName] EXCEPT
              !.LocalPortRange = [Start |-> fapArg.start, End |-> fapArg.end]]
     IN \E upH \in StoreAnswers(serviceConfig.Host) :
        \E upP \in StoreAnswers(serviceConfig.RemotePort) :
        \E out \in EC2Answers(jumphost[i]) : \E rnd \in RndChoices(out) :
        \E started \in BOOLEAN :
          LET r == CreateTunnel(serviceName, serviceConfig, jumphost[i],
                                fapArg.busy, upH, upP, out, rnd, started)
              pid == Len(procs) + 1
          IN /\ ssmLog' = Set(ssmLog, i, r.ssm)
             /\ ec2Log' = Set(ec2Log, i, r.ec2)
             /\ portScans' = Set(portScans, i, r.scans)
             /\ jumphost' = Set(jumphost, i, r.jumphost)
             /\ IF r.started
                THEN /\ procs' = Append(procs,
                            r.cmd @@ [owner |-> i, bound |-> FALSE,
                                      alive |-> TRUE])
                     /\ tunnels' = Set(tunnels, i,
                            StoreTunnel(tunnels[i], serviceName, pid))
                     /\ launched' = Set(launched, i, {pid})
                ELSE UNCHANGED <<procs, tunnels, launched>>
             /\ iters' = Set(iters, i,
                    <<[ssm |-> r.ssm, ec2 |-> r.ec2, scans |-> r.scans,
                       pid |-> IF r.started THEN pid ELSE 0]>>)
             /\ svcErr' = Set(svcErr, i, <<r.err>>)
             /\ ret' = Set(ret, i, r.err)
  /\ attempts' = Set(attempts, i, <<serviceName>>)
  /\ tunnels0' = Set(tunnels0, i, tunnels[i])
  /\ pc' = Set(pc, i, "ct1done")
  /\ UNCHANGED <<mainPc, args, services, idx, lastError, clVisited, details,
                 detailsArg, batchLog>>
  /\ UNCHANGED pureVars
  /\ UNCHANGED signalVars
  /\ UNCHANGED printed

NextPorts ==
  \/ CallFindAvailablePort
  \/ \E i \in Inst : \E n \in DOMAIN Services : CallCreateTunnel(i, n)

SpecPorts == InitPorts /\ [][NextPorts]_vars

\* instance.State: a state name, or no State at all
InstanceStates == {"running", "stopped", "none"}

\* the instances a DescribeInstances answer holds: each of two instances is
\* absent or comes in some state
Fleets == [{"i-1", "i-2"} -> InstanceStates \cup {"absent"}]

InstancesOf(fleet, ids) ==
  SelectSeq([k \in 1..Len(ids) |-> [InstanceId |-> ids[k], State |-> fleet[ids[k]]]],
            LAMBDA inst : inst.State # "absent")

\* answers of DescribeInstances: a failure, or the instances of a fleet in
\* one reservation or in one reservation each
DescribeAnswers ==
  {[err |-> TRUE, Reservations |-> <<>>]} \cup
  {[err |-> FALSE, Reservations |-> <<InstancesOf(fleet, <<"i-1", "i-2">>)>>] :
     fleet \in Fleets} \cup
  {[err |-> FALSE, Reservations |-> <<InstancesOf(fleet, <<"i-1">>),
                                     InstancesOf(fleet, <<"i-2">>)>>] :
     fleet \in Fleets}

InitJumphost ==
  /\ NoManager
  /\ gjArg \in [env : EnvChoices, out : DescribeAnswers]
  /\ gjRet = <<>>
  /\ gvArg = <<>>
  /\ gvLog = <<>>
  /\ fapArg = <<>>
  /\ fapRet = <<>>
  /\ gpArg = <<>>
  /\ gpRet = <<>>

\* client.GetJumphost(env, filter) with the filter of the configuration
CallGetJumphost(rnd) ==
  /\ Len(gjRet) = 0
  /\ gjRet' = <<ClientGetJumphost(gjArg.env, JumphostFilter, gjArg.out, rnd)>>
  /\ UNCHANGED <<gvArg, gvLog, fapArg, fapRet, gjArg, gpArg, gpRet>>
  /\ UNCHANGED managerVars
  /\ UNCHANGED signalVars
  /\ UNCHANGED printed

NextJumphost == \E rnd \in RndChoices(gjArg.out) : CallGetJumphost(rnd)

SpecJumphost == InitJumphost /\ [][NextJumphost]_vars

(***************************************************************************)
(* main, the service-details command.                                      *)
(***************************************************************************)
\* one run of "tunnel-go service-details -services ..."
InitDetailsCmd ==
  /\ mainPc = [i \in Inst |-> IF i = 1 THEN "sdstart" ELSE "off"]
  /\ args \in [Inst -> ServiceLists \cup {<<>>}]
  /\ \A i \in Inst : args[i] = <<>> <=> mainPc[i] = "off"
  /\ InitCommon
  /\ NoPureCall

\* the keys main prints: all but host, remote_port and local_port_range;
\* the lines come in the order of the sorted keys, so the map is the output
PrintedLines(d) ==
  [k \in DOMAIN d \ {<<"host">>, <<"remote_port">>, <<"local_port_range">>}
     |-> d[k]]

\* main, service-details: NewManager, strings.Split, the range loop begins
MainServiceDetails(i) ==
  /\ mainPc[i] = "sdstart"
  /\ mainPc' = Set(mainPc, i, "sdloop")
  /\ services' = Set(services, i, args[i])
  /\ idx' = Set(idx, i, 1)
  /\ UNCHANGED <<args, pc, lastError, ret, jumphost, tunnels, procs, attempts,
                 svcErr, ec2Log, ssmLog, portScans, launched, tunnels0,
                 clVisited, details, detailsArg, batchLog, iters>>
  /\ UNCHANGED pureVars
  /\ UNCHANGED signalVars
  /\ UNCHANGED printed

\* one iteration, first half: cfg.GetServiceConfig, log.Fatalf on its error,
\* else manager.GetServiceDetails
MainDetailsQuery(i) ==
  /\ mainPc[i] = "sdloop"
  /\ Idle(i)
  /\ idx[i] <= Len(services[i])
  /\ LET serviceName == services[i][idx[i]]
         c == GetServiceConfig(serviceName)
     IN IF c.err # Nil
        THEN /\ mainPc' = Set(mainPc, i, "sdfatal")
             /\ UNCHANGED <<pc, ret, attempts, ssmLog, details, detailsArg,
                            batchLog>>
        ELSE /\ \E upH \in StoreAnswers(c.cfg.Host) :
                \E upP \in StoreAnswers(c.cfg.RemotePort) :
                \E failAt \in 0..1 :
                  LET r == ManagerGetServiceDetails(c.cfg, upH, upP, failAt)
                  IN /\ details' = r.details
                     /\ ret' = Set(ret, i, r.err)
                     /\ ssmLog' = Set(ssmLog, i, ssmLog[i] \o r.ssm)
                     /\ batchLog' = r.fetch
             /\ detailsArg' = serviceName
             /\ attempts' = Set(attempts, i, Append(attempts[i], serviceName))
             /\ pc' = Set(pc, i, "gsddone")
             /\ UNCHANGED mainPc
  /\ UNCHANGED <<args, services, idx, lastError, jumphost, tunnels, procs,
                 svcErr, ec2Log, portScans, launched, tunnels0, clVisited,
                 iters>>
  /\ UNCHANGED pureVars
  /\ UNCHANGED signalVars
  /\ UNCHANGED printed

\* one iteration, second half: the warning and continue when
\* GetServiceDetails failed, else the service and its additional parameters
\* are printed; main returns after the last service
MainDetailsPrint(i) ==
  /\ mainPc[i] = "sdloop"
  /\ pc[i] = "gsddone"
  /\ printed' = Set(printed, i,
                    IF ret[i] # Nil THEN printed[i]
                    ELSE Append(printed[i],
                                [svc |-> services[i][idx[i]],
                                 lines |-> PrintedLines(details)]))
  /\ svcErr' = Set(svcErr, i, Append(svcErr[i], ret[i]))
  /\ pc' = Set(pc, i, "idle")
  /\ idx' = Set(idx, i, idx[i] + 1)
  /\ mainPc' = Set(mainPc, i,
                   IF idx[i] = Len(services[i]) THEN "sddone" ELSE "sdloop")
  /\ UNCHANGED <<args, services, lastError, ret, jumphost, tunnels, procs,
                 attempts, ec2Log, ssmLog, portScans, launched, tunnels0,
                 clVisited, details, detailsArg, batchLog, iters>>
  /\ UNCHANGED pureVars
  /\ UNCHANGED signalVars

NextDetailsCmd ==
  \/ \E i \in Inst : MainServiceDetails(i)
  \/ \E i \in Inst : MainDetailsQuery(i)
  \/ \E i \in Inst : MainDetailsPrint(i)

SpecDetailsCmd == InitDetailsCmd /\ [][NextDetailsCmd]_vars

(***************************************************************************)
(* Client.GetParametersByPath on its own, over lists of up to MaxPaths     *)
(* names.                                                                  *)
(***************************************************************************)
MaxPaths == 21

\* names of the store at the first place of the list and around the
\* borders of the batches; the last one is a parameter without a value
KnownAt ==
  (1 :> <<"/", "d", "/", "B", "/", "host">>) @@
  (batchSize :> <<"/", "d", "/", "B", "/", "user">>) @@
  (batchSize + 1 :> <<"/", "d", "/", "A", "/", "port">>) @@
  (2 * batchSize + 1 :> <<"/", "d", "/", "B", "/", "note">>)

\* a name the store does not have, one for each place of the list
UnknownAt(k) == <<"/", "q", "/", ToString(k)>>

PathLists ==
  {[k \in 1..n |-> IF k \in known THEN KnownAt[k] ELSE UnknownAt(k)] :
     n \in 0..MaxPaths, known \in SUBSET DOMAIN KnownAt}

InitBatch ==
  /\ NoManager
  /\ gpArg \in {<<paths>> : paths \in PathLists}
  /\ gpRet = <<>>
  /\ gvArg = <<>>
  /\ gvLog = <<>>
  /\ fapArg = <<>>
  /\ fapRet = <<>>
  /\ gjArg = <<>>
  /\ gjRet = <<>>

\* c.GetParametersByPath(paths); failAt is the number of the ssm
\* GetParameters call that fails, 0 when none does
CallGetParametersByPath(failAt) ==
  /\ Len(gpArg) = 1
  /\ Len(gpRet) = 0
  /\ LET r == GetParametersByPath(gpArg[1], failAt)
     IN gpRet' = <<[params |-> r.params, calls |-> r.calls, err |-> r.err,
                    failAt |-> failAt]>>
  /\ UNCHANGED <<gvArg, gvLog, fapArg, fapRet, gjArg, gjRet, gpArg>>
  /\ UNCHANGED managerVars
  /\ UNCHANGED signalVars
  /\ UNCHANGED printed

NextBatch ==
  \E failAt \in 0..(MaxPaths \div batchSize + 1) : CallGetParametersByPath(failAt)

SpecBatch == InitBatch /\ [][NextBatch]_vars

(***************************************************************************)
(* Properties.                                                             *)
(***************************************************************************)
CTDone(i) == pc[i] = "ctdone"

\* the jumphost query at the start of the CreateTunnels call failed
JumphostFailedAtStart(i) ==
  /\ pc[i] \in {"service", "ctdone"}
  /\ ec2Log[i] # <<>>
  /\ ec2Log[i][1] = NoInstance

\* the iterations of the finished call that failed
Failures(i) == {k \in DOMAIN svcErr[i] : svcErr[i][k] # Nil}

Max(S) == CHOOSE x \in S : \A y \in S : y <= x

\* the process is the value of some key of the registry of its owner
Registered(p) ==
  \E k \in DOMAIN tunnels[procs[p].owner] : tunnels[procs[p].owner][k] = p

\* a call CreateTunnels(<<a, b>>) has ended, a's tunnel was created and b
\* failed at the resolution of its host
PartialBatch(i, a, b) ==
  /\ CTDone(i)
  /\ a # b
  /\ services[i] = <<a, b>>
  /\ Len(svcErr[i]) = 2
  /\ svcErr[i][1] = Nil
  /\ svcErr[i][2] # Nil
  /\ svcErr[i][2][1] = <<"failed to get host for", b>>

\* C1: after CreateTunnels(<<a, b>>) in which every step for a succeeded
\* and the host resolution of b failed, a's session is in the registry, its
\* process was started in this call and is not terminated, no process was
\* started for b and b gets no registry entry, and the returned error wraps
\* the failure of b.
C1_PartialBatchKeepsTunnel ==
  \A i \in Inst : \A a \in Names, b \in Names :
    PartialBatch(i, a, b) =>
      /\ a \in DOMAIN tunnels[i]
      /\ tunnels[i][a] \in launched[i]
      /\ procs[tunnels[i][a]].svc = a
      /\ procs[tunnels[i][a]].alive
      /\ \A p \in launched[i] : procs[p].svc # b
      /\ b \notin DOMAIN tunnels0[i] => b \notin DOMAIN tunnels[i]
      /\ ret[i] # Nil
      /\ ret[i] # svcErr[i][2]
      /\ Wraps(ret[i], svcErr[i][2])

C1_Witness ==
  \E i \in Inst : PartialBatch(i, "A", "B") /\ tunnels0[i] = <<>>

\* C2: when CleanupTunnels has returned, every session that was registered
\* got a terminate attempt, and the call returned an error if one of the
\* attempts failed.
C2_CleanupAttemptsAll ==
  \A i \in Inst :
    pc[i] = "cldone" =>
      /\ \A k \in DOMAIN tunnels[i] : k \in clVisited[i]
      /\ lastError[i] # Nil => ret[i] # Nil

\* C3: when the create-tunnel command has exited after its wait for the
\* interrupt, every registered session got a terminate attempt.
C3_InterruptCleansUp ==
  \A i \in Inst :
    mainPc[i] = "exited" => \A k \in DOMAIN tunnels[i] : k \in clVisited[i]

\* C4: when GetServiceDetails has returned for a service with extra detail
\* paths whose batched fetch got an error, it returned no error and a map
\* with the keys host, remote_port and local_port_range.
C4_FetchErrorKeepsThreeKeys ==
  \A i \in Inst :
    (/\ pc[i] = "gsddone"
     /\ Len(Services[detailsArg].ServiceDetails) > 0
     /\ batchLog.err # Nil)
    => /\ ret[i] = Nil
       /\ {<<"host">>, <<"remote_port">>, <<"local_port_range">>}
            \subseteq DOMAIN details

\* C5: when the jumphost query at the start of CreateTunnels fails, the
\* call is over with an error that wraps the query's, and it took up no
\* service, asked the parameter store nothing, scanned no port, started no
\* process, asked for no other jumphost and left the registry and the
\* Manager's jumphost as they were.
C5_JumphostFailureAborts ==
  \A i \in Inst :
    JumphostFailedAtStart(i) =>
      /\ CTDone(i)
      /\ ret[i] # Nil
      /\ ret[i][1] = <<"failed to find jumphost instance", "">>
      /\ attempts[i] = <<>>
      /\ ssmLog[i] = <<>>
      /\ portScans[i] = 0
      /\ launched[i] = {}
      /\ Len(ec2Log[i]) = 1
      /\ tunnels[i] = tunnels0[i]

C5_Witness ==
  \E i \in Inst :
    /\ JumphostFailedAtStart(i)
    /\ CTDone(i)
    /\ tunnels0[i] # <<>>
    /\ \E p \in DOMAIN procs : procs[p].alive

\* C6: every forwarding process that was started and not terminated is the
\* value of a key of its Manager's registry.
C6_RunningIsRegistered ==
  \A p \in DOMAIN procs : procs[p].alive => Registered(p)

\* C7: no two forwarding processes started by different instances of the
\* tool, both still running, were started with the same local port.
C7_NoPortConflict ==
  \A p \in DOMAIN procs, q \in DOMAIN procs :
    (/\ procs[p].owner # procs[q].owner
     /\ procs[p].alive
     /\ procs[q].alive)
    => procs[p].localPort # procs[q].localPort

\* C8: CreateTunnels returns nil exactly when every name of the list got
\* its process started; when some failed, the returned error is the batch
\* error around the error of the last name in list order that failed.
C8_BatchResult ==
  \A i \in Inst :
    CTDone(i) =>
      /\ ret[i] = Nil <=> Cardinality(launched[i]) = Len(services[i])
      /\ Failures(i) # {} =>
           /\ ret[i] = Errorf("one or more tunnels failed to create", "",
                              svcErr[i][Max(Failures(i))])
           /\ Wraps(ret[i], svcErr[i][Max(Failures(i))])

C8_Witness ==
  \E i \in Inst :
    /\ CTDone(i)
    /\ Len(svcErr[i]) = 2
    /\ svcErr[i][1] # Nil
    /\ svcErr[i][2] # Nil
    /\ svcErr[i][1] # svcErr[i][2]

\* C9: the loop of CreateTunnels takes up the names of the list once each
\* and in list order: what it has taken up is always the list up to the
\* current position, with one outcome per name, and when the call is over
\* (the jumphost having been found) it is the whole list, whichever of the
\* names failed.
C9_EveryServiceAttempted ==
  \A i \in Inst :
    (pc[i] \in {"service", "ctdone"} /\ ~JumphostFailedAtStart(i)) =>
      /\ Len(attempts[i]) <= Len(services[i])
      /\ attempts[i] = SubSeq(services[i], 1, Len(attempts[i]))
      /\ Len(svcErr[i]) = Len(attempts[i])
      /\ pc[i] = "service" => Len(attempts[i]) = idx[i] - 1
      /\ CTDone(i) => attempts[i] = services[i]

C9_Witness ==
  \E i \in Inst :
    /\ CTDone(i)
    /\ Len(services[i]) = 2
    /\ attempts[i] = services[i]
    /\ svcErr[i][1] # Nil
    /\ svcErr[i][2] = Nil

\* C10: during and after one CreateTunnels call the compute-instance
\* provider was asked for a jumphost once, and every process started in the
\* call targets the instance that query gave.
C10_OneJumphostPerCall ==
  \A i \in Inst :
    pc[i] \in {"service", "ctdone"} =>
      /\ Len(ec2Log[i]) = 1
      /\ \A p \in launched[i] : procs[p].target = ec2Log[i][1]

C10_Witness ==
  \E i \in Inst :
    /\ CTDone(i)
    /\ Len(svcErr[i]) = 2
    /\ svcErr[i][1] # Nil
    /\ Cardinality(launched[i]) = 1
    /\ \A p \in launched[i] : procs[p].target = "i-2"

\* the concatenation of a sequence of strings
RECURSIVE Concat(_)
Concat(ss) == IF ss = <<>> THEN <<>> ELSE Head(ss) \o Concat(Tail(ss))

\* s with each placeholder token replaced by env, position by position: a
\* token is a "$" directly followed by "{P}", and two tokens never overlap
Expanded(s, env) ==
  Concat([k \in 1..Len(s) |->
            IF s[k] = "$" /\ k < Len(s) /\ s[k + 1] = "{P}" THEN env
            ELSE IF s[k] = "{P}" /\ k > 1 /\ s[k - 1] = "$" THEN <<>>
            ELSE <<s[k]>>])

BothSet(cv) == cv.Value # <<>> /\ cv.SSMParam # <<>>
NoneSet(cv) == cv.Value = <<>> /\ cv.SSMParam = <<>>
OnlyValue(cv) == cv.Value # <<>> /\ cv.SSMParam = <<>>
OnlyParam(cv) == cv.Value = <<>> /\ cv.SSMParam # <<>>

\* C11: every resolution of a ConfigValue with both the inline literal and
\* the reference path set fails with the conflicting-source error, returns
\* "" and sends nothing to the parameter store, whatever the environment
\* string and whether or not the store would answer.
C11_BothSetFails ==
  \A n \in DOMAIN gvLog :
    BothSet(gvArg.cv) =>
      /\ gvLog[n].r.err = <<<<"cannot specify both value and SSM parameter", "">>>>
      /\ gvLog[n].r.val = <<>>
      /\ gvLog[n].r.calls = <<>>

C11_Witness ==
  /\ Len(gvLog) = MaxResolutions
  /\ gvArg.cv = [Value |-> <<"v">>, SSMParam |-> HostPathB]
  /\ gvArg.placeholder = <<"d">>
  /\ \A n \in DOMAIN gvLog : gvLog[n].up

\* C12: every resolution of a ConfigValue with neither the inline literal
\* nor the reference path set fails with the missing-source error, returns
\* "" and sends nothing to the parameter store.
C12_NoneSetFails ==
  \A n \in DOMAIN gvLog :
    NoneSet(gvArg.cv) =>
      /\ gvLog[n].r.err = <<<<"no value or SSM parameter specified", "">>>>
      /\ gvLog[n].r.val = <<>>
      /\ gvLog[n].r.calls = <<>>

C12_Witness ==
  /\ Len(gvLog) = MaxResolutions
  /\ NoneSet(gvArg.cv)
  /\ gvArg.placeholder = <<"p">>

\* C13: every resolution of a ConfigValue with only the inline literal L
\* set returns exactly L and no error and sends nothing to the parameter
\* store, whatever the environment string, also when L contains the
\* placeholder token.
C13_LiteralReturned ==
  \A n \in DOMAIN gvLog :
    OnlyValue(gvArg.cv) =>
      /\ gvLog[n].r.err = Nil
      /\ gvLog[n].r.val = gvArg.cv.Value
      /\ gvLog[n].r.calls = <<>>

C13_Witness ==
  /\ Len(gvLog) > 0
  /\ gvArg.cv = [Value |-> <<"$", "{P}", "v">>, SSMParam |-> <<>>]
  /\ gvArg.placeholder = <<"d">>
  /\ ~gvLog[1].up

\* C14: every resolution of a ConfigValue with only the reference path R
\* set, under environment E, sends exactly one name to the parameter
\* store, R with each placeholder token replaced by E, also when it is
\* resolved again and also when the store fails; it returns the value the
\* store holds under that name, or the store's error and "".
C14_ReferenceResolvedOnce ==
  \A n \in DOMAIN gvLog :
    OnlyParam(gvArg.cv) =>
      LET name == Expanded(gvArg.cv.SSMParam, gvArg.placeholder)
      IN /\ gvLog[n].r.calls = <<name>>
         /\ IF gvLog[n].up /\ name \in DOMAIN Store
            THEN /\ gvLog[n].r.err = Nil
                 /\ gvLog[n].r.val = Store[name]
            ELSE /\ gvLog[n].r.err # Nil
                 /\ Wraps(gvLog[n].r.err, <<<<"ssm", "">>>>)
                 /\ gvLog[n].r.val = <<>>

C14_Witness ==
  /\ Len(gvLog) = MaxResolutions
  /\ gvArg.cv = [Value |-> <<>>,
                 SSMParam |-> <<"/", "$", "{P}", "/", "B", "/", "$", "{P}">>]
  /\ gvArg.placeholder = <<"d">>
  /\ \A n \in DOMAIN gvLog :
       /\ gvLog[n].up
       /\ gvLog[n].r.val = <<"hBd">>
       /\ gvLog[n].r.calls = << <<"/", "d", "/", "B", "/", "d">> >>

\* the ports of the drawn range on which net.Listen succeeds
FreePorts == (fapArg.start..fapArg.end) \ fapArg.busy

\* C15: whenever at least one port of start..end can be bound,
\* findAvailablePort returns no error and the lowest of the ports of the
\* range that can be bound; when only one port can, it returns that one.
C15_LowestFreePort ==
  \A n \in DOMAIN fapRet :
    FreePorts # {} =>
      /\ fapRet[n].err = Nil
      /\ fapRet[n].port \in FreePorts
      /\ \A q \in FreePorts : fapRet[n].port <= q

C15_Witness ==
  /\ Len(fapRet) = 1
  /\ fapArg.start = 5000
  /\ fapArg.end = 5002
  /\ fapArg.busy = {5000, 5001}
  /\ fapRet[1].port = 5002

\* CreateTunnel called on its own returned the error of the port allocator
PortAllocationFailed(i) ==
  /\ pc[i] = "ct1done"
  /\ ret[i] # Nil
  /\ ret[i][1][1] = "failed to find available port for"

\* C16: findAvailablePort returns the no-port-available error, and port 0,
\* exactly when no port of start..end can be bound, as when start > end; a
\* CreateTunnel that came to the port scan fails with that error, wrapped,
\* exactly then, and has then started no process and stored no session.
C16_NoPortAvailable ==
  /\ \A n \in DOMAIN fapRet :
       /\ fapRet[n].err # Nil <=> FreePorts = {}
       /\ fapRet[n].err # Nil =>
            /\ fapRet[n].err = <<<<"no available ports in range", "">>>>
            /\ fapRet[n].port \notin fapArg.start..fapArg.end
  /\ \A i \in Inst :
       pc[i] = "ct1done" =>
         /\ PortAllocationFailed(i) <=> (portScans[i] = 1 /\ FreePorts = {})
         /\ PortAllocationFailed(i) =>
              /\ Wraps(ret[i], <<<<"no available ports in range", "">>>>)
              /\ procs = <<>>
              /\ launched[i] = {}
              /\ tunnels[i] = <<>>

C16_Witness ==
  /\ Len(fapRet) = 1
  /\ fapArg.start = 5000
  /\ fapArg.end = 5001
  /\ fapArg.busy = {5000, 5001}
  /\ fapRet[1].err # Nil
  /\ PortAllocationFailed(1)
  /\ jumphost[1] = "i-2"

\* the ids of the instances of an answer that have a State and are running
RunningIds(out) ==
  UNION {{out.Reservations[r][k].InstanceId :
            k \in {j \in DOMAIN out.Reservations[r] :
                     out.Reservations[r][j].State = "running"}} :
         r \in DOMAIN out.Reservations}

\* C17: when DescribeInstances answers without a running instance, be it
\* with no instance at all or with instances that are stopped or have no
\* state, GetJumphost returns no instance and the error "no running
\* instances found matching filter" with the filter after placeholder
\* replacement; when it answers with running ones, the instance returned
\* is one of them, never one in another state.
C17_NoHealthyJumphost ==
  \A n \in DOMAIN gjRet :
    ~gjArg.out.err =>
      IF RunningIds(gjArg.out) = {}
      THEN /\ gjRet[n].inst = NoInstance
           /\ gjRet[n].err =
                <<<<"no running instances found matching filter",
                    Expanded(JumphostFilter, gjArg.env)>>>>
      ELSE /\ gjRet[n].err = Nil
           /\ gjRet[n].inst \in RunningIds(gjArg.out)

C17_Witness ==
  /\ Len(gjRet) = 1
  /\ gjArg.env = <<"d">>
  /\ gjArg.out.Reservations =
       << <<[InstanceId |-> "i-1", State |-> "stopped"]>>,
          <<[InstanceId |-> "i-2", State |-> "none"]>> >>
  /\ gjRet[1].inst = NoInstance
  /\ gjRet[1].err = <<<<"no running instances found matching filter",
                        <<"d", "-", "j">>>>>>

\* GetServiceDetails has returned a map for a service that has no extra
\* detail paths
DetailsWithoutPaths(i) ==
  /\ pc[i] = "gsddone"
  /\ Len(Services[detailsArg].ServiceDetails) = 0
  /\ ret[i] = Nil

\* C18: when GetServiceDetails returns without error for a service with no
\* extra detail paths, the keys of the map are exactly host, remote_port
\* and local_port_range, host and remote_port hold the resolved values,
\* local_port_range is "start-end" of the configured range, and no batched
\* fetch was made; it returns an error only when a resolution failed.
C18_NoDetailPathsThreeKeys ==
  \A i \in Inst :
    /\ DetailsWithoutPaths(i) =>
         /\ DOMAIN details =
              {<<"host">>, <<"remote_port">>, <<"local_port_range">>}
         /\ batchLog.calls = <<>>
         /\ batchLog.err = Nil
         /\ detailsArg = "A" =>
              /\ details[<<"host">>] = <<"hA">>
              /\ details[<<"remote_port">>] = <<"3306">>
              /\ details[<<"local_port_range">>] = <<"5000", "-", "5001">>
              /\ ssmLog[i] = << <<"/", "d", "/", "A", "/", "port">> >>
    /\ (pc[i] = "gsddone" /\ ret[i] # Nil) =>
         /\ ret[i][1][1] \in {"failed to get host", "failed to get remote port"}
         /\ Wraps(ret[i], <<<<"ssm", "">>>>)

C18_Witness ==
  \E i \in Inst :
    /\ DetailsWithoutPaths(i)
    /\ detailsArg = "A"
    /\ <<"local_port_range">> \in DOMAIN details

NoRepeats(svcs) ==
  \A a \in DOMAIN svcs, b \in DOMAIN svcs : a # b => svcs[a] # svcs[b]

\* the names of the list whose iteration started a process
LaunchedNames(i) ==
  {services[i][k] : k \in {j \in DOMAIN iters[i] : iters[i][j].pid # 0}}

\* the names of the list whose iteration ended with an error
FailedNames(i) ==
  {services[i][k] : k \in {j \in DOMAIN svcErr[i] : svcErr[i][j] # Nil}}

\* a CreateTunnels call on a Manager with an empty registry, for a list
\* without repeated names, in its loop or over
FreshCall(i) ==
  /\ pc[i] \in {"service", "ctdone"}
  /\ tunnels0[i] = <<>>
  /\ NoRepeats(services[i])

\* C19: during and after a CreateTunnels call that began with an empty
\* registry, for a list without repeated names, the names in the registry
\* are exactly the names whose process was started in the call: each entry
\* is a process started in this call for that name, and a name whose
\* iteration ended with an error (unknown service, resolution, port
\* allocation or launch failure) has no entry.
C19_RegistryIsLaunched ==
  \A i \in Inst :
    FreshCall(i) =>
      /\ DOMAIN tunnels[i] = LaunchedNames(i)
      /\ \A n \in DOMAIN tunnels[i] :
           /\ tunnels[i][n] \in launched[i]
           /\ procs[tunnels[i][n]].svc = n
      /\ FailedNames(i) \cap DOMAIN tunnels[i] = {}
      /\ \A k \in DOMAIN iters[i] : iters[i][k].pid # 0 <=> svcErr[i][k] = Nil

C19_Witness ==
  \E i \in Inst :
    /\ FreshCall(i)
    /\ CTDone(i)
    /\ services[i] = <<"B", "A">>
    /\ Len(svcErr[i]) = 2
    /\ svcErr[i][1] # Nil
    /\ svcErr[i][1][1] = <<"failed to start AWS CLI command", "">>
    /\ DOMAIN tunnels[i] = {"A"}

\* the value a ConfigValue of the configuration stands for in this
\* environment: its literal, or what the store holds under its reference
Resolved(cv) ==
  IF cv.Value # <<>> THEN cv.Value ELSE Store[Expanded(cv.SSMParam, Env)]

\* the names a resolution of cv sends to the store
Asked(cv) ==
  IF cv.SSMParam # <<>> THEN <<Expanded(cv.SSMParam, Env)>> ELSE <<>>

\* C20: in a CreateTunnels call, an iteration started a process only with
\* the Manager's jumphost set, after it asked the store for the host and
\* then the remote port of the service and scanned the ports once, and the
\* process got that jumphost, the resolved host, the resolved remote port
\* and a port of the service's range; an iteration whose host resolution
\* failed asked the store for the host only, scanned no port and started
\* no process.
C20_LaunchAfterResolution ==
  \A i \in Inst :
    pc[i] \in {"service", "ctdone"} =>
      \A k \in DOMAIN iters[i] :
        LET name == services[i][k]
            it == iters[i][k]
        IN /\ it.pid # 0 =>
                LET cfg == Services[name]
                    p == procs[it.pid]
                IN /\ jumphost[i] # NoInstance
                   /\ p.target = jumphost[i]
                   /\ p.svc = name
                   /\ p.host = Resolved(cfg.Host)
                   /\ p.remotePort = Resolved(cfg.RemotePort)
                   /\ p.localPort \in
                        cfg.LocalPortRange.Start..cfg.LocalPortRange.End
                   /\ it.ssm = Asked(cfg.Host) \o Asked(cfg.RemotePort)
                   /\ it.scans = 1
           /\ (svcErr[i][k] # Nil
               /\ svcErr[i][k][1] = <<"failed to get host for", name>>) =>
                /\ it.ssm = Asked(Services[name].Host)
                /\ it.scans = 0
                /\ it.pid = 0

C20_Witness ==
  \E i \in Inst :
    /\ CTDone(i)
    /\ services[i] = <<"B", "B">>
    /\ Len(iters[i]) = 2
    /\ svcErr[i][1] # Nil
    /\ svcErr[i][1][1] = <<"failed to get host for", "B">>
    /\ iters[i][1].ssm = << <<"/", "d", "/", "B", "/", "host">> >>
    /\ iters[i][2].pid # 0
    /\ procs[iters[i][2].pid].host = <<"hB">>
    /\ procs[iters[i][2].pid].remotePort = <<"5432">>
    /\ procs[iters[i][2].pid].target = "i-2"
    /\ procs[iters[i][2].pid].localPort = 5002

\* the ranges of the two services have a port in common
RangesOverlap(a, b) ==
  (Services[a].LocalPortRange.Start..Services[a].LocalPortRange.End) \cap
  (Services[b].LocalPortRange.Start..Services[b].LocalPortRange.End) # {}

\* C21: the processes one CreateTunnels call started for two different
\* services with overlapping local port ranges were started with
\* different local ports.
C21_DistinctPortsInCall ==
  \A i \in Inst : \A p \in launched[i], q \in launched[i] :
    (/\ pc[i] \in {"service", "ctdone"}
     /\ procs[p].svc # procs[q].svc
     /\ RangesOverlap(procs[p].svc, procs[q].svc))
    => procs[p].localPort # procs[q].localPort

\* the set of the elements of a sequence
Elems(q) == {q[n] : n \in DOMAIN q}

\* C22: with CleanupTunnels running beside a CreateTunnels of the same
\* Manager, the callback is called only with started processes of this
\* Manager, with no process and no key twice, and when CleanupTunnels has
\* returned without a failed termination, every process that was in the
\* registry when it began has got its Kill.
C22_ConcurrentCleanup ==
  \A i \in Inst :
    /\ \A n \in DOMAIN clPids[i] :
         /\ clPids[i][n] \in DOMAIN procs
         /\ procs[clPids[i][n]].owner = i
    /\ Cardinality(Elems(clPids[i])) = Len(clPids[i])
    /\ Cardinality(PassedKeys(i)) = Len(clPids[i])
    /\ (clPc[i] = "done" /\ clErr[i] = Nil) =>
         \A k \in DOMAIN clTunnels0[i] : clTunnels0[i][k] \in Elems(clPids[i])

\* C23: the create-tunnel command whose CreateTunnels has returned an
\* error after it started a process for some service of the list does not
\* terminate on that error: it goes on to the wait for the interrupt.
C23_PartialSuccessKeepsRunning ==
  \A i \in Inst :
    (/\ mainPc[i] \notin {"off", "start", "creating"}
     /\ ret[i] # Nil
     /\ launched[i] # {})
    => mainPc[i] \in {"waiting", "exited"}

\* the instances GetJumphost can return for an answer, over the values of
\* rand.Intn
Selectable(env, out) ==
  {ClientGetJumphost(env, JumphostFilter, out, rnd).inst : rnd \in RndChoices(out)}

\* C24: when DescribeInstances answers with running instances, GetJumphost
\* returns no error and one of them, and the instances it can return for
\* that answer are all of them, not the first only.
C24_AnyRunningInstance ==
  (~gjArg.out.err /\ RunningIds(gjArg.out) # {}) =>
    /\ Selectable(gjArg.env, gjArg.out) = RunningIds(gjArg.out)
    /\ \A n \in DOMAIN gjRet :
         /\ gjRet[n].err = Nil
         /\ gjRet[n].inst \in RunningIds(gjArg.out)

C24_Witness ==
  /\ Len(gjRet) = 1
  /\ gjArg.out.Reservations =
       << <<[InstanceId |-> "i-1", State |-> "running"]>>,
          <<[InstanceId |-> "i-2", State |-> "running"]>> >>
  /\ gjRet[1].err = Nil
  /\ gjRet[1].inst = "i-2"

\* GetServiceDetails returned a map after a batched fetch that succeeded
DetailsMerged(i) ==
  /\ pc[i] = "gsddone"
  /\ ret[i] = Nil
  /\ Len(Services[detailsArg].ServiceDetails) > 0
  /\ batchLog.err = Nil

\* the returned parameters that have a name and a value
Mergeable(parameters) ==
  {k \in 1..Len(parameters) :
     parameters[k].Name # NoValue /\ parameters[k].Value # NoValue}

\* the value of the last returned parameter whose name ends in seg
LastValueOf(parameters, seg) ==
  LET ks == {k \in Mergeable(parameters) :
               LastSegment(parameters[k].Name) = seg}
  IN parameters[CHOOSE k \in ks : \A j \in ks : j <= k].Value

\* C25 as stated: every parameter the batched fetch returned with a name
\* and a value is in the result of GetServiceDetails, under the last segment
\* of its name and with its own value.
C25_EveryParameterMerged ==
  \A i \in Inst :
    DetailsMerged(i) =>
      \A k \in Mergeable(batchLog.params) :
        /\ LastSegment(batchLog.params[k].Name) \in DOMAIN details
        /\ details[LastSegment(batchLog.params[k].Name)] =
             batchLog.params[k].Value

\* C25 amended: every parameter the batched fetch returned with a name and
\* a value has the last segment of its name as a key of the result; the key
\* local_port_range holds the formatted port range, and every other such key
\* holds the value of the last returned parameter whose name ends in it.
C25_LastParameterWins ==
  \A i \in Inst :
    DetailsMerged(i) =>
      \A k \in Mergeable(batchLog.params) :
        LET seg == LastSegment(batchLog.params[k].Name)
        IN /\ seg \in DOMAIN details
           /\ details[seg] =
                IF seg = <<"local_port_range">>
                THEN FormatRange(Services[detailsArg].LocalPortRange)
                ELSE LastValueOf(batchLog.params, seg)

\* two returned parameters end in the same segment with different values,
\* one returned parameter has no value, and the result holds the later one
C25_Witness ==
  \E i \in Inst :
    /\ DetailsMerged(i)
    /\ \E j, k \in Mergeable(batchLog.params) :
         /\ j < k
         /\ LastSegment(batchLog.params[j].Name) =
              LastSegment(batchLog.params[k].Name)
         /\ batchLog.params[j].Value # batchLog.params[k].Value
         /\ details[LastSegment(batchLog.params[k].Name)] =
              batchLog.params[k].Value
    /\ Mergeable(batchLog.params) # 1..Len(batchLog.params)
    /\ <<"user">> \in DOMAIN details

\* C26: in every map GetServiceDetails returns without error, host is the
\* value resolved from the host ConfigValue of the service and remote_port is
\* the value resolved from its remote-port ConfigValue, whatever parameters
\* the batched fetch returned.
C26_HostAndPortAreResolved ==
  \A i \in Inst :
    (pc[i] = "gsddone" /\ ret[i] = Nil) =>
      /\ details[<<"host">>] = Resolved(Services[detailsArg].Host)
      /\ details[<<"remote_port">>] = Resolved(Services[detailsArg].RemotePort)

\* C27: GetServiceDetails resolves the host and then the remote port before
\* the batched fetch: a call that returns an error returns no map, its error
\* is that of the host or of the remote-port resolution, and it issued no
\* batched fetch; a call that issued the batched fetch had asked the store
\* for the host and the remote port of the service and holds both values.
C27_ResolutionBeforeFetch ==
  \A i \in Inst :
    pc[i] = "gsddone" =>
      /\ ret[i] # Nil =>
           /\ details = <<>>
           /\ batchLog = NoFetch
           /\ ret[i][1][1] \in {"failed to get host", "failed to get remote port"}
           /\ ret[i][1][1] = "failed to get host" =>
                ssmLog[i] = Asked(Services[detailsArg].Host)
      /\ batchLog.calls # <<>> =>
           /\ ret[i] = Nil
           /\ ssmLog[i] = Asked(Services[detailsArg].Host)
                            \o Asked(Services[detailsArg].RemotePort)
           /\ {<<"host">>, <<"remote_port">>} \subseteq DOMAIN details

\* the remote-port resolution of a service with detail paths failed after
\* its host was resolved
C27_Witness ==
  \E i \in Inst :
    /\ pc[i] = "gsddone"
    /\ detailsArg = "B"
    /\ ret[i] # Nil
    /\ ret[i][1][1] = "failed to get remote port"
    /\ Len(ssmLog[i]) = 2
    /\ batchLog = NoFetch
    /\ details = <<>>

\* C28: GetServiceDetails only reads: the step in which a call returns, with
\* or without error, starts and ends no process, probes no port, sends no
\* query for compute instances, and leaves the registry and the cached
\* jumphost of its Manager, and of every other one, as they were.
C28_DetailsReadOnly ==
  [][(\E i \in Inst : pc[i] # "gsddone" /\ pc'[i] = "gsddone")
       => UNCHANGED <<procs, portScans, ec2Log, launched, tunnels, jumphost>>]_vars

\* a call returned on a Manager that holds a tunnel and a cached jumphost
C28_Witness ==
  \E i \in Inst :
    /\ pc[i] = "gsddone"
    /\ DOMAIN tunnels[i] # {}
    /\ tunnels[i] = tunnels0[i]
    /\ jumphost[i] # NoInstance
    /\ procs # <<>>

\* the call of GetParametersByPath returned and no underlying call failed
BatchesAllAnswered ==
  /\ Len(gpRet) = 1
  /\ gpRet[1].failAt \notin 1..((Len(gpArg[1]) + 9) \div 10)

\* the parameters the store has among the names, in the order of the names
FoundIn(paths) ==
  LET at == {k \in 1..Len(paths) : paths[k] \in DOMAIN Store}
  IN Concat([k \in 1..Len(paths) |->
               IF k \in at
               THEN <<[Name |-> paths[k], Value |-> Store[paths[k]]]>>
               ELSE <<>>])

\* C29: GetParametersByPath over n names sends, when no underlying call
\* fails, ceil(n/10) calls of one to ten names each that together are the
\* list of names, every name once and in input order; it returns the
\* parameters of the calls in call order, and the no-parameters-found error
\* with no parameters when the calls returned none.  When a call fails it is
\* the last one sent, and the error is that of the failed call.
C29_BatchesOfTen ==
  Len(gpRet) = 1 =>
    LET paths == gpArg[1]
        r == gpRet[1]
        n == Len(paths)
    IN /\ \A c \in 1..Len(r.calls) : Len(r.calls[c]) \in 1..10
       /\ \A c \in 1..(Len(r.calls) - 1) : Len(r.calls[c]) = 10
       /\ BatchesAllAnswered =>
            /\ Len(r.calls) * 10 >= n
            /\ (Len(r.calls) - 1) * 10 < n \/ (n = 0 /\ Len(r.calls) = 0)
            /\ Concat(r.calls) = paths
            /\ FoundIn(paths) # <<>> =>
                 r.err = Nil /\ r.params = FoundIn(paths)
            /\ FoundIn(paths) = <<>> =>
                 /\ r.err = <<<<"no parameters found", "">>>>
                 /\ r.params = <<>>
       /\ ~BatchesAllAnswered =>
            /\ Len(r.calls) = r.failAt
            /\ Concat(r.calls) = SubSeq(paths, 1, Len(Concat(r.calls)))
            /\ r.err # Nil
            /\ r.err[1] = <<"failed to get parameters", "">>
            /\ r.params = <<>>

\* 21 names were sent in three calls of 10, 10 and 1 names, and a parameter
\* of each call is in the result
C29_Witness ==
  /\ BatchesAllAnswered
  /\ Len(gpArg[1]) = 2 * 10 + 1
  /\ Len(gpRet[1].calls) = 3
  /\ Len(gpRet[1].calls[3]) = 1
  /\ gpRet[1].err = Nil
  /\ Len(gpRet[1].params) = 3
  /\ gpRet[1].params[2].Name = <<"/", "d", "/", "A", "/", "port">>

\* the run of the service-details command ended
DetailsCmdEnded(i) == mainPc[i] \in {"sdfatal", "sddone"}

\* the services of the list that the configuration has, in list order
Configured(svcs) == SelectSeq(svcs, LAMBDA n : n \in DOMAIN Services)

\* C30: when a run of the service-details command ended, GetServiceDetails
\* was called for every service of the list that is in the configuration,
\* whether or not the list names services that are absent from it, and
\* every one of them whose call returned without error was printed.
C30_AbsentServiceFailsAlone ==
  \A i \in Inst :
    DetailsCmdEnded(i) =>
      /\ attempts[i] = Configured(args[i])
      /\ Len(svcErr[i]) = Len(attempts[i])
      /\ Len(printed[i]) =
           Cardinality({k \in 1..Len(svcErr[i]) : svcErr[i][k] = Nil})
      /\ \A k \in 1..Len(svcErr[i]) :
           svcErr[i][k] = Nil =>
             \E j \in 1..Len(printed[i]) : printed[i][j].svc = attempts[i][k]

\* s has sub as a contiguous part
Contains(s, sub) ==
  \E k \in 0..(Len(s) - Len(sub)) : SubSeq(s, k + 1, k + Len(sub)) = sub

\* some frame that the program added to the provider's error has s in its
\* argument
Mentions(err, s) ==
  \E k \in 1..Len(err) : err[k][1] # "ssm" /\ Contains(err[k][2], s)

\* the store failed in the n-th resolution of a reference-backed ConfigValue
StoreFailedAt(n) ==
  /\ OnlyParam(gvArg.cv)
  /\ \/ ~gvLog[n].up
     \/ Expanded(gvArg.cv.SSMParam, gvArg.placeholder) \notin DOMAIN Store

\* C31: when the parameter store fails in the resolution of a ConfigValue
\* with only the reference path set, GetValue returns "" and an error that
\* holds the reference path as the configuration has it, before the
\* placeholder was replaced, and the environment string.
C31_FailureCarriesPathAndEnv ==
  \A n \in DOMAIN gvLog :
    StoreFailedAt(n) =>
      /\ gvLog[n].r.val = <<>>
      /\ gvLog[n].r.err # Nil
      /\ Mentions(gvLog[n].r.err, gvArg.cv.SSMParam)
      /\ Mentions(gvLog[n].r.err, gvArg.placeholder)

====
